---- MODULE Spec2Model ----
(***************************************************************************)
(* Model of the notebooks of dtu_mlops_final_exercise_s1.                  *)
(*                                                                         *)
(*   Spec       the "Saving and Loading Models" notebook                   *)
(*              (src/unnamed/part_000): its code cells run in the order    *)
(*              of their execution counts, In[6] .. In[16].                *)
(*   TrainSpec  the training cells: In[15] of "Training Neural Networks"   *)
(*              (src/unnamed/part_001), and In[19], In[22], In[27] of      *)
(*              "Inference and Validation", statement by statement.        *)
(*                                                                         *)
(* A tensor is a record [shape, val]: shape is the torch.Size, val stands  *)
(* for the whole numeric content of the tensor.  Two tensors are           *)
(* numerically identical exactly when shape and val agree.                 *)
(***************************************************************************)
EXTENDS Integers, Sequences, FiniteSets, TLC

\* ------------------------------------------------------------------ bounds
MaxHidden == 2          \* longest generated list of hidden widths
MaxVal == 1             \* tensor contents range over 0..MaxVal

NumTrainBatches == 2    \* len(trainloader)
NumTest == 3            \* examples in the test set
BatchSize == 2          \* batch_size of the test loader
MaxWeight == 2          \* parameter content is kept modulo MaxWeight + 1
MaxGrad == 1            \* one backward pass adds a gradient in -MaxGrad..MaxGrad

\* --------------------------------------------------------- program literals
EpochsPart4 == 5
EpochsPart5 == 10
InputSize == 784
OutputSize == 10
TrainedHidden == <<512, 256, 128>>
OtherHidden == <<400, 200, 100>>

Vals == 0..MaxVal
Widths == {400, 512}

\* The hidden-width lists a Network(784, 10, ...) cell is run with: the two
\* literal lists of the notebook and every list of 1..MaxHidden widths.
HiddenChoices ==
    {TrainedHidden, OtherHidden} \cup
    UNION {[1..n -> Widths] : n \in 1..MaxHidden}

VARIABLES
    pc,          \* the code cell that runs next (by execution count), or "end"
    model,       \* the notebook global `model`
    file,        \* contents of 'checkpoint.pth'
    state_dict,  \* the notebook global `state_dict` (unbound before In[11])
    out,         \* what the cell that ran last displayed or raised
    lc_pc,       \* position inside load_checkpoint while In[16] runs
    lc_checkpoint, \* load_checkpoint's local `checkpoint`
    lc_model,    \* load_checkpoint's local `model`
    trained,     \* history: the network as fc_model.train left it
    saved        \* history: the network whose checkpoint In[14] wrote

cvars == <<pc, model, file, state_dict, out, lc_pc, lc_checkpoint, lc_model,
           trained, saved>>

VARIABLES
    cell,         \* the training cell that is running, or "end"
    t_pc,         \* the statement of that cell that runs next
    e,            \* the loop variable of `for e in range(epochs)`
    b,            \* training batches fetched in this epoch
    tb,           \* test batches fetched in this validation pass
    weights,      \* content of the model's parameters
    grad,         \* their .grad: <<>> is None, <<g>> a tensor
    training,     \* model.training (train mode / evaluation mode)
    grad_enabled, \* FALSE inside `with torch.no_grad()`
    loss,         \* loss.item() of the current batch
    running_loss, \* the cell's running_loss
    accuracy,     \* the cell's `accuracy`: <<>> unbound, <<correct, examples>>
    printed,      \* what the last print wrote: <<>> or <<numerator, denominator>>
    print_label,  \* the text before that number: "none", "Training loss", "Accuracy"
    test_losses,  \* the cell's list `test_losses`
    batch_grad,   \* history: gradient of the current batch's loss: <<>> or <<g>>
    ops,          \* history: the calls made for the current training batch
    n_step,       \* history: optimizer.step calls made by this cell
    n_done,       \* history: training batches fully processed in this epoch
    n_val,        \* history: validation passes finished by this cell
    correct_total,  \* history: correct predictions in this validation pass
    examples_total, \* history: examples seen in this validation pass
    val_start     \* history: <<weights, grad>> when the pass began

tvars == <<cell, t_pc, e, b, tb, weights, grad, training, grad_enabled, loss,
           running_loss, accuracy, printed, print_label, test_losses,
           batch_grad, ops, n_step, n_done, n_val, correct_total, examples_total, val_start>>

VARIABLES
    a_pc,         \* the cell of In[4]..In[6] of part 5 that runs next, or "idle"
    ps,           \* the class probabilities of the batch, shape (N, classes)
    labels,       \* the labels of the batch, shape (N)
    top_class,    \* ps.topk(1, dim=1)[1], shape (N, 1), once In[4] has run
    equals_v      \* the notebook global `equals`, once In[5] has run

avars == <<a_pc, ps, labels, top_class, equals_v>>

vars == <<cvars, tvars, avars>>

\* ------------------------------------------------------------ torch.nn
Tensor(shape, v) == [shape |-> shape, val |-> v]

\* nn.Linear(in_features, out_features): weight is (out, in), bias is (out).
Linear(i, o, v) ==
    [in_features |-> i, out_features |-> o,
     weight |-> Tensor(<<o, i>>, v), bias |-> Tensor(<<o>>, v)]

\* Mutant: every hidden layer is fed the network's input.
Network_unchained(input_size, output_size, hidden, v) ==
    [hidden_layers |->
        [i \in 1..Len(hidden) |-> Linear(input_size, hidden[i], v)],
     output |-> Linear(hidden[Len(hidden)], output_size, v),
     dropout |-> [p |-> "0.5", inplace |-> FALSE]]

\* fc_model.Network(input_size, output_size, hidden_layers); v is the value
\* the random initialisation gives the parameters.
Network(input_size, output_size, hidden, v) ==
    [hidden_layers |->
        [i \in 1..Len(hidden) |->
            Linear(IF i = 1 THEN input_size ELSE hidden[i - 1], hidden[i], v)],
     output |-> Linear(hidden[Len(hidden)], output_size, v),
     dropout |-> [p |-> "0.5", inplace |-> FALSE]]

\* Mutant: only the weights are parameters, the layers have no bias.
Keys_weights_only(n) ==
    {<<"hidden_layers", i, "weight">> : i \in 0..(n - 1)}
    \cup {<<"output", 0, "weight">>}

\* Names of the parameters of a network with n hidden layers; the i-th hidden
\* layer is named with index i - 1, as ModuleList does.
Keys(n) ==
    {<<"hidden_layers", i, kind>> : i \in 0..(n - 1), kind \in {"weight", "bias"}}
    \cup {<<"output", 0, kind>> : kind \in {"weight", "bias"}}

\* The tensor a parameter name denotes in net.
Param(net, k) ==
    IF k[1] = "hidden_layers" THEN net.hidden_layers[k[2] + 1][k[3]]
    ELSE net.output[k[3]]

\* model.state_dict()
model_state_dict(net) ==
    [k \in Keys(Len(net.hidden_layers)) |-> Param(net, k)]

\* [each.out_features for each in model.hidden_layers]
out_features_list(net) ==
    [i \in 1..Len(net.hidden_layers) |-> net.hidden_layers[i].out_features]

\* The layer widths of a network, input to output.
LayerWidths(net) ==
    <<net.hidden_layers[1].in_features>> \o out_features_list(net)
    \o <<net.output.out_features>>

\* net with the content of every parameter named in ks replaced by sd's.
CopyParams(net, sd, ks) ==
    LET lin(l, prefix, idx) ==
            [l EXCEPT
                !.weight = IF <<prefix, idx, "weight">> \in ks
                           THEN sd[<<prefix, idx, "weight">>] ELSE @,
                !.bias = IF <<prefix, idx, "bias">> \in ks
                         THEN sd[<<prefix, idx, "bias">>] ELSE @]
    IN [net EXCEPT
          !.hidden_layers =
              [i \in DOMAIN net.hidden_layers |->
                  lin(net.hidden_layers[i], "hidden_layers", i - 1)],
          !.output = lin(net.output, "output", 0)]

\* Mutant: shapes are not compared; a stored tensor is cut or padded to fit.
load_state_dict_resizing(net, sd) ==
    LET own == Keys(Len(net.hidden_layers))
        fitted == [k \in own \cap DOMAIN sd |->
                      Tensor(Param(net, k).shape, sd[k].val)]
    IN [net |-> CopyParams(net, fitted, DOMAIN fitted),
        result |-> IF own = DOMAIN sd
                   THEN "<All keys matched successfully>"
                   ELSE "RuntimeError"]

\* Mutant: only the weights are copied, the biases keep their content.
load_state_dict_weights_only(net, sd) ==
    LET own == Keys(Len(net.hidden_layers))
        mismatch == {k \in own \cap DOMAIN sd :
                        sd[k].shape # Param(net, k).shape}
        copied == {k \in (own \cap DOMAIN sd) \ mismatch : k[3] = "weight"}
    IN [net |-> CopyParams(net, sd, copied),
        result |-> IF (own \ DOMAIN sd) \cup ((DOMAIN sd) \ own) \cup mismatch = {}
                   THEN "<All keys matched successfully>"
                   ELSE "RuntimeError"]

\* Module.load_state_dict(state_dict), strict: every parameter whose name is
\* in sd with the same shape is copied; a missing key, an unexpected key or a
\* size mismatch is collected and RuntimeError is raised after the copies.
load_state_dict(net, sd) ==
    LET own == Keys(Len(net.hidden_layers))
        missing == own \ DOMAIN sd
        unexpected == (DOMAIN sd) \ own
        mismatch == {k \in own \cap DOMAIN sd :
                        sd[k].shape # Param(net, k).shape}
        copied == (own \cap DOMAIN sd) \ mismatch
    IN [net |-> CopyParams(net, sd, copied),
        result |-> IF missing \cup unexpected \cup mismatch = {}
                   THEN "<All keys matched successfully>"
                   ELSE "RuntimeError"]

\* fc_model.train (its body is in fc_model.py): the layers keep their shapes,
\* every weight ends with content wv, every bias with bv.
train(net, wv, bv) ==
    LET lin(l) == [l EXCEPT !.weight.val = wv, !.bias.val = bv]
    IN [net EXCEPT
          !.hidden_layers = [i \in DOMAIN net.hidden_layers |->
                                lin(net.hidden_layers[i])],
          !.output = lin(net.output)]

\* ------------------------------------------------------------ the file
NoObject == [kind |-> "absent", obj |-> <<>>]
NoDict == [k \in {} |-> Tensor(<<>>, 0)]
NoCheckpoint ==
    [input_size |-> 0, output_size |-> 0, hidden_layers |-> <<>>,
     state_dict |-> NoDict]

\* torch.save(obj, 'checkpoint.pth') replaces the file's contents.
torch_save(kind, obj) == [kind |-> kind, obj |-> obj]

\* torch.load('checkpoint.pth')
torch_load(f) == f.obj

\* Mutant: the list comprehension reads in_features instead of out_features.
checkpoint_of_in_features(net) ==
    [input_size |-> InputSize,
     output_size |-> OutputSize,
     hidden_layers |-> [i \in 1..Len(net.hidden_layers) |->
                           net.hidden_layers[i].in_features],
     state_dict |-> model_state_dict(net)]

\* Mutant: the two size literals are swapped.
checkpoint_of_swapped_sizes(net) ==
    [input_size |-> OutputSize,
     output_size |-> InputSize,
     hidden_layers |-> out_features_list(net),
     state_dict |-> model_state_dict(net)]

\* The dictionary In[14] builds.
checkpoint_of(net) ==
    [input_size |-> InputSize,
     output_size |-> OutputSize,
     hidden_layers |-> out_features_list(net),
     state_dict |-> model_state_dict(net)]

\* ------------------------------------------------------------ the cells
\* In[6] has run: model = fc_model.Network(784, 10, hidden).
TrainIdle ==
    /\ cell = "end" /\ t_pc = "end"
    /\ e = 0 /\ b = 0 /\ tb = 0
    /\ weights = 0 /\ grad = <<>>
    /\ training = TRUE /\ grad_enabled = TRUE
    /\ loss = 0 /\ running_loss = 0
    /\ accuracy = <<>> /\ printed = <<>>
    /\ print_label = "none" /\ test_losses = <<>>
    /\ batch_grad = <<>>
    /\ ops = <<>> /\ n_step = 0 /\ n_done = 0 /\ n_val = 0
    /\ correct_total = 0 /\ examples_total = 0
    /\ val_start = <<>>

Init ==
    /\ TrainIdle
    /\ a_pc = "idle"
    /\ ps = [shape |-> <<>>, data |-> <<>>] /\ labels = ps
    /\ top_class = ps /\ equals_v = ps
    /\ pc = "In8"
    /\ \E h \in HiddenChoices, v \in Vals :
          /\ model = Network(InputSize, OutputSize, h, v)
          /\ trained = model
          /\ saved = model
          /\ lc_model = model
    /\ file = NoObject
    /\ state_dict = NoDict
    /\ out = "none"
    /\ lc_pc = "idle"
    /\ lc_checkpoint = NoCheckpoint

\* In[8]: fc_model.train(model, trainloader, testloader, criterion, optimizer)
In8_train ==
    /\ pc = "In8"
    /\ \E wv \in Vals, bv \in Vals : model' = train(model, wv, bv)
    /\ trained' = model'
    /\ out' = "losses"
    /\ pc' = "In10"
    /\ UNCHANGED <<file, state_dict, lc_pc, lc_checkpoint, lc_model, saved, tvars, avars>>

\* In[10]: torch.save(model.state_dict(), 'checkpoint.pth')
In10_save_state_dict ==
    /\ pc = "In10"
    /\ file' = torch_save("state_dict", model_state_dict(model))
    /\ out' = "none"
    /\ pc' = "In11"
    /\ UNCHANGED <<model, state_dict, lc_pc, lc_checkpoint, lc_model, trained,
                   saved, tvars, avars>>

\* In[11]: state_dict = torch.load('checkpoint.pth'); print(state_dict.keys())
In11_load_file ==
    /\ pc = "In11"
    /\ state_dict' = torch_load(file)
    /\ out' = "keys"
    /\ pc' = "In12"
    /\ UNCHANGED <<model, file, lc_pc, lc_checkpoint, lc_model, trained, saved, tvars, avars>>

\* In[12]: model.load_state_dict(state_dict)
In12_load_state_dict ==
    /\ pc = "In12"
    /\ LET r == load_state_dict(model, state_dict)
       IN /\ model' = r.net
          /\ out' = r.result
    /\ pc' = "In13"
    /\ UNCHANGED <<file, state_dict, lc_pc, lc_checkpoint, lc_model, trained,
                   saved, tvars, avars>>

\* In[13]: model = fc_model.Network(784, 10, hidden); model.load_state_dict(state_dict)
In13_other_architecture ==
    /\ pc = "In13"
    /\ \E h \in HiddenChoices, v \in Vals :
          LET r == load_state_dict(Network(InputSize, OutputSize, h, v), state_dict)
          IN /\ model' = r.net
             /\ out' = r.result
    /\ pc' = "In14"
    /\ UNCHANGED <<file, state_dict, lc_pc, lc_checkpoint, lc_model, trained,
                   saved, tvars, avars>>

\* In[14]: checkpoint = {...}; torch.save(checkpoint, 'checkpoint.pth')
In14_save_checkpoint ==
    /\ pc = "In14"
    /\ file' = torch_save("checkpoint", checkpoint_of(model))
    /\ saved' = model
    /\ out' = "none"
    /\ pc' = "In16"
    /\ UNCHANGED <<model, state_dict, lc_pc, lc_checkpoint, lc_model, trained, tvars, avars>>

\* Mutant: load_checkpoint starts on its own, whatever cell is running.
LC_read_any_time ==
    /\ lc_pc = "idle"
    /\ lc_checkpoint' = torch_load(file)
    /\ lc_pc' = "build"
    /\ UNCHANGED <<pc, model, file, state_dict, out, lc_model, trained, saved, tvars, avars>>

\* In[16] calls load_checkpoint('checkpoint.pth'); its statements follow.
\* checkpoint = torch.load(filepath)
LC_read ==
    /\ pc = "In16" /\ lc_pc = "idle"
    /\ lc_checkpoint' = torch_load(file)
    /\ lc_pc' = "build"
    /\ UNCHANGED <<pc, model, file, state_dict, out, lc_model, trained, saved, tvars, avars>>

\* Mutant: the network is rebuilt from the literals of In[6], not the record.
LC_build_literal ==
    /\ pc = "In16" /\ lc_pc = "build"
    /\ \E v \in Vals :
          lc_model' = Network(InputSize, OutputSize, TrainedHidden, v)
    /\ lc_pc' = "assign"
    /\ UNCHANGED <<pc, model, file, state_dict, out, lc_checkpoint, trained, saved, tvars, avars>>

\* model = fc_model.Network(checkpoint['input_size'], ..., checkpoint['hidden_layers'])
LC_build ==
    /\ pc = "In16" /\ lc_pc = "build"
    /\ \E v \in Vals :
          lc_model' = Network(lc_checkpoint.input_size, lc_checkpoint.output_size,
                              lc_checkpoint.hidden_layers, v)
    /\ lc_pc' = "assign"
    /\ UNCHANGED <<pc, model, file, state_dict, out, lc_checkpoint, trained, saved, tvars, avars>>

\* model.load_state_dict(checkpoint['state_dict']); an error leaves the cell.
LC_assign ==
    /\ pc = "In16" /\ lc_pc = "assign"
    /\ LET r == load_state_dict(lc_model, lc_checkpoint.state_dict)
       IN /\ lc_model' = r.net
          /\ IF r.result = "RuntimeError"
             THEN /\ out' = "RuntimeError"
                  /\ lc_pc' = "raised"
                  /\ pc' = "end"
             ELSE /\ out' = out
                  /\ lc_pc' = "return"
                  /\ pc' = pc
    /\ UNCHANGED <<model, file, state_dict, lc_checkpoint, trained, saved, tvars, avars>>

\* return model; In[16] binds the result to `model` and prints it.
LC_return ==
    /\ pc = "In16" /\ lc_pc = "return"
    /\ model' = lc_model
    /\ out' = "Network"
    /\ lc_pc' = "returned"
    /\ pc' = "end"
    /\ UNCHANGED <<file, state_dict, lc_checkpoint, lc_model, trained, saved, tvars, avars>>

Next ==
    \/ In8_train
    \/ In10_save_state_dict
    \/ In11_load_file
    \/ In12_load_state_dict
    \/ In13_other_architecture
    \/ In14_save_checkpoint
    \/ LC_read
    \/ LC_build
    \/ LC_assign
    \/ LC_return

Spec == Init /\ [][Next]_vars

\* ------------------------------------------------------------ training cells
\* Two classes tell a right prediction from a wrong one; two loss values
\* tell a batch that adds to running_loss from one that does not.
Classes == {0, 1}
Losses == {0, 1}
Grads == (-MaxGrad)..MaxGrad
TrainingCells == {"P4_In15", "P5_In19", "P5_In22"}

\* epochs = 5 in In[15] of part 4, epochs = 10 in In[19] and In[22] of part 5.
Epochs(c) == IF c = "P4_In15" THEN EpochsPart4 ELSE EpochsPart5

\* The cells of part 5 whose for-else branch is a validation pass.
HasValidation(c) == c \in {"P5_In19", "P5_In22"}

\* len(testloader), and the number of examples in its j-th batch (the last
\* batch holds what is left).
NumTestBatches == (NumTest + BatchSize - 1) \div BatchSize
TestBatchLen(j) ==
    IF j * BatchSize <= NumTest THEN BatchSize ELSE NumTest - (j - 1) * BatchSize

\* A tensor of data: its shape and its entries in row-major order.
DataTensor(shape, data) == [shape |-> shape, data |-> data]
NoTensor == DataTensor(<<>>, <<>>)

\* t.view(*shape): the same entries under another shape.
view(t, shape) == DataTensor(shape, t.data)

\* Broadcasting of tensors of one or two dimensions: a shape (M) counts as
\* (1, M), and a dimension of size 1 is repeated.
Rank2(shape) == IF Len(shape) = 1 THEN <<1, shape[1]>> ELSE shape
Entry(t, i, j) ==
    LET sh == Rank2(t.shape)
    IN t.data[((IF sh[1] = 1 THEN 1 ELSE i) - 1) * sh[2]
              + (IF sh[2] = 1 THEN 1 ELSE j)]
Max2(x, y) == IF x >= y THEN x ELSE y

\* x == y on tensors: elementwise after broadcasting.
tensor_eq(x, y) ==
    LET xs == Rank2(x.shape)
        ys == Rank2(y.shape)
        rows == Max2(xs[1], ys[1])
        cols == Max2(xs[2], ys[2])
    IN DataTensor(<<rows, cols>>,
                  [k \in 1..(rows * cols) |->
                      Entry(x, ((k - 1) \div cols) + 1, ((k - 1) % cols) + 1)
                      = Entry(y, ((k - 1) \div cols) + 1, ((k - 1) % cols) + 1)])

\* Mutant: equals = top_class == labels, without the view.
equals_broadcast(tc, lb) == tensor_eq(tc, lb)

\* equals = top_class == labels.view(*top_class.shape)
equals(tc, lb) == tensor_eq(tc, view(lb, tc.shape))

\* torch.mean(equals.type(torch.FloatTensor)), as <<numerator, denominator>>
mean(eq) == <<Cardinality({i \in 1..Len(eq.data) : eq.data[i]}), Len(eq.data)>>

\* top_p, top_class = ps.topk(1, dim=1): for each row the index of a largest
\* entry, as a tensor of shape (N, 1). Which index a tie yields is not
\* specified, so every largest entry is a possible outcome.
NumClasses == Cardinality(Classes)
topk1_class(p) ==
    LET n == p.shape[1]
    IN {DataTensor(<<n, 1>>, tc) : tc \in
          {f \in [1..n -> Classes] :
              \A i \in 1..n : \A c \in Classes :
                  Entry(p, i, f[i] + 1) >= Entry(p, i, c + 1)}}

\* The calls of one training pass, in the order the cells make them.
FiveSteps == <<"zero_grad", "forward", "loss", "backward", "step">>

CheckpointIdle ==
    /\ pc = "end"
    /\ model = Network(InputSize, OutputSize, TrainedHidden, 0)
    /\ trained = model /\ saved = model /\ lc_model = model
    /\ file = NoObject
    /\ state_dict = NoDict
    /\ out = "none"
    /\ lc_pc = "idle"
    /\ lc_checkpoint = NoCheckpoint

\* The cells In[4]..In[6] of part 5 are not running.
AccIdle ==
    /\ a_pc = "idle"
    /\ ps = NoTensor /\ labels = NoTensor
    /\ top_class = NoTensor /\ equals_v = NoTensor

\* A kernel about to run In[10] of part 4 or In[19] of part 5.
TrainInit ==
    /\ CheckpointIdle
    /\ AccIdle
    /\ \/ cell = "P4_In10" /\ t_pc = "p4_model"
       \/ cell = "P5_In19" /\ t_pc = "setup"
    /\ e = 0 /\ b = 0 /\ tb = 0
    /\ weights = 0 /\ grad = <<>>
    /\ training = TRUE /\ grad_enabled = TRUE
    /\ loss = 0 /\ running_loss = 0
    /\ accuracy = <<>> /\ printed = <<>>
    /\ print_label = "none" /\ test_losses = <<>>
    /\ batch_grad = <<>>
    /\ ops = <<>> /\ n_step = 0 /\ n_done = 0 /\ n_val = 0
    /\ correct_total = 0 /\ examples_total = 0
    /\ val_start = <<>>

\* model = ...; criterion = nn.NLLLoss(); optimizer = ...; epochs = ...;
\* train_losses, test_losses = [], []
T_setup ==
    /\ t_pc = "setup"
    /\ \E w0 \in 0..MaxWeight : weights' = w0
    /\ grad' = <<>> /\ batch_grad' = <<>>
    /\ training' = TRUE
    /\ e' = 0
    /\ n_step' = 0 /\ n_val' = 0
    /\ test_losses' = <<>>
    /\ t_pc' = "epoch"
    /\ UNCHANGED <<cell, b, tb, grad_enabled, loss, running_loss, accuracy,
                   printed, ops, n_done, correct_total, examples_total,
                   val_start, print_label,
                   cvars, avars>>

\* for e in range(epochs): running_loss = 0
T_epoch ==
    /\ t_pc = "epoch"
    /\ IF e < Epochs(cell)
       THEN /\ running_loss' = 0
            /\ b' = 0 /\ n_done' = 0
            /\ t_pc' = "for_train"
       ELSE /\ t_pc' = "cell_done"
            /\ UNCHANGED <<running_loss, b, n_done>>
    /\ UNCHANGED <<cell, e, tb, weights, grad, training, grad_enabled, loss,
                   accuracy, printed, ops, n_step, n_val, correct_total,
                   examples_total, val_start, test_losses, print_label,
                   batch_grad, cvars, avars>>

\* Mutant: the loop stops one batch short of the loader's end.
T_for_train_short ==
    /\ t_pc = "for_train"
    /\ IF b < NumTrainBatches - 1
       THEN /\ b' = b + 1
            /\ ops' = <<>> /\ batch_grad' = <<>>
            /\ t_pc' = "zero_grad"
       ELSE /\ t_pc' = "else"
            /\ UNCHANGED <<b, ops, batch_grad>>
    /\ UNCHANGED <<cell, e, tb, weights, grad, training, grad_enabled, loss,
                   running_loss, accuracy, printed, n_step, n_done, n_val,
                   correct_total, examples_total, val_start, test_losses, print_label,
                   cvars, avars>>

\* Mutant: the loop breaks once the loader is exhausted, so its else branch
\* is skipped and the next epoch begins.
T_for_train_breaking ==
    /\ t_pc = "for_train"
    /\ IF b < NumTrainBatches
       THEN /\ b' = b + 1
            /\ ops' = <<>> /\ batch_grad' = <<>>
            /\ t_pc' = "zero_grad"
            /\ e' = e
       ELSE /\ t_pc' = "epoch"
            /\ e' = e + 1
            /\ UNCHANGED <<b, ops, batch_grad>>
    /\ UNCHANGED <<cell, tb, weights, grad, training, grad_enabled, loss,
                   running_loss, accuracy, printed, n_step, n_done, n_val,
                   correct_total, examples_total, val_start, test_losses, print_label,
                   cvars, avars>>

\* for images, labels in trainloader: the next batch, or the else branch
\* once the loader is exhausted (the loop has no break).
T_for_train ==
    /\ t_pc = "for_train"
    /\ IF b < NumTrainBatches
       THEN /\ b' = b + 1
            /\ ops' = <<>> /\ batch_grad' = <<>>
            /\ t_pc' = "zero_grad"
       ELSE /\ t_pc' = "else"
            /\ UNCHANGED <<b, ops, batch_grad>>
    /\ UNCHANGED <<cell, e, tb, weights, grad, training, grad_enabled, loss,
                   running_loss, accuracy, printed, n_step, n_done, n_val,
                   correct_total, examples_total, val_start, test_losses, print_label,
                   cvars, avars>>

\* Mutant: the training pass does not call optimizer.zero_grad().
T_zero_grad_missing ==
    /\ t_pc = "zero_grad"
    /\ t_pc' = "forward"
    /\ UNCHANGED <<cell, e, b, tb, weights, grad, training, grad_enabled, loss,
                   running_loss, accuracy, printed, ops, n_step, n_done, n_val,
                   correct_total, examples_total, val_start, test_losses, print_label,
                   batch_grad, cvars, avars>>

\* Mutant: optimizer.zero_grad() is called but leaves the gradient as it is.
T_zero_grad_keeping ==
    /\ t_pc = "zero_grad"
    /\ ops' = Append(ops, "zero_grad")
    /\ t_pc' = "forward"
    /\ UNCHANGED <<cell, e, b, tb, weights, grad, training, grad_enabled, loss,
                   running_loss, accuracy, printed, print_label, test_losses,
                   batch_grad, n_step, n_done, n_val, correct_total,
                   examples_total, val_start, cvars, avars>>

\* optimizer.zero_grad(): a gradient that exists is set to zero.
T_zero_grad ==
    /\ t_pc = "zero_grad"
    /\ grad' = IF grad = <<>> THEN <<>> ELSE <<0>>
    /\ ops' = Append(ops, "zero_grad")
    /\ t_pc' = "forward"
    /\ UNCHANGED <<cell, e, b, tb, weights, training, grad_enabled, loss,
                   running_loss, accuracy, printed, n_step, n_done, n_val,
                   correct_total, examples_total, val_start, test_losses, print_label,
                   batch_grad, cvars, avars>>

\* log_ps = model(images)
T_forward ==
    /\ t_pc = "forward"
    /\ ops' = Append(ops, "forward")
    /\ t_pc' = "criterion"
    /\ UNCHANGED <<cell, e, b, tb, weights, grad, training, grad_enabled, loss,
                   running_loss, accuracy, printed, n_step, n_done, n_val,
                   correct_total, examples_total, val_start, test_losses, print_label,
                   batch_grad, cvars, avars>>

\* loss = criterion(log_ps, labels)
T_criterion ==
    /\ t_pc = "criterion"
    /\ \E l \in Losses : loss' = l
    /\ ops' = Append(ops, "loss")
    /\ t_pc' = "backward"
    /\ UNCHANGED <<cell, e, b, tb, weights, grad, training, grad_enabled,
                   running_loss, accuracy, printed, n_step, n_done, n_val,
                   correct_total, examples_total, val_start, test_losses, print_label,
                   batch_grad, cvars, avars>>

\* Mutant: the backward pass also moves the parameters against the
\* batch's gradient.
T_backward_updating ==
    /\ t_pc = "backward"
    /\ \E g \in Grads :
          /\ grad' = <<(IF grad = <<>> THEN 0 ELSE grad[1]) + g>>
          /\ batch_grad' = <<g>>
          /\ weights' = (weights - g) % (MaxWeight + 1)
    /\ ops' = Append(ops, "backward")
    /\ t_pc' = "step"
    /\ UNCHANGED <<cell, e, b, tb, training, grad_enabled, loss,
                   running_loss, accuracy, printed, n_step, n_done, n_val,
                   correct_total, examples_total, val_start, test_losses, print_label,
                   cvars, avars>>

\* loss.backward(): the batch's gradient is added to .grad.
T_backward ==
    /\ t_pc = "backward"
    /\ \E g \in Grads :
          /\ grad' = <<(IF grad = <<>> THEN 0 ELSE grad[1]) + g>>
          /\ batch_grad' = <<g>>
    /\ ops' = Append(ops, "backward")
    /\ t_pc' = "step"
    /\ UNCHANGED <<cell, e, b, tb, weights, training, grad_enabled, loss,
                   running_loss, accuracy, printed, n_step, n_done, n_val,
                   correct_total, examples_total, val_start, test_losses, print_label,
                   cvars, avars>>

\* optimizer.step(): the parameters move against the gradient.
T_step ==
    /\ t_pc = "step"
    /\ weights' = (weights - grad[1]) % (MaxWeight + 1)
    /\ n_step' = n_step + 1
    /\ ops' = Append(ops, "step")
    /\ t_pc' = "running_loss"
    /\ UNCHANGED <<cell, e, b, tb, grad, training, grad_enabled, loss,
                   running_loss, accuracy, printed, n_done, n_val,
                   correct_total, examples_total, val_start, test_losses, print_label,
                   batch_grad, cvars, avars>>

\* running_loss += loss.item()
T_running_loss ==
    /\ t_pc = "running_loss"
    /\ running_loss' = running_loss + loss
    /\ n_done' = n_done + 1
    /\ t_pc' = "for_train"
    /\ UNCHANGED <<cell, e, b, tb, weights, grad, training, grad_enabled, loss,
                   accuracy, printed, ops, n_step, n_val, correct_total,
                   examples_total, val_start, test_losses, print_label,
                   batch_grad, cvars, avars>>

\* part 4, else: print(f"Training loss: {running_loss/len(trainloader)}")
P4_print_loss ==
    /\ t_pc = "else" /\ cell = "P4_In15"
    /\ printed' = <<running_loss, NumTrainBatches>>
    /\ print_label' = "Training loss"
    /\ e' = e + 1
    /\ t_pc' = "epoch"
    /\ UNCHANGED <<cell, b, tb, weights, grad, training, grad_enabled, loss,
                   running_loss, accuracy, ops, n_step, n_done, n_val,
                   correct_total, examples_total, val_start, test_losses,
                   batch_grad, cvars, avars>>

\* Mutant: the validation pass of In[22] does not call model.eval().
V_enter_no_eval ==
    /\ t_pc = "else" /\ HasValidation(cell)
    /\ grad_enabled' = FALSE
    /\ tb' = 0
    /\ correct_total' = 0 /\ examples_total' = 0
    /\ val_start' = <<weights, grad>>
    /\ t_pc' = "for_test"
    /\ UNCHANGED <<cell, e, b, weights, grad, training, loss, running_loss,
                   accuracy, printed, ops, n_step, n_done, n_val, test_losses, print_label,
                   batch_grad, cvars, avars>>

\* part 5, else: with torch.no_grad(): and, in In[22], model.eval()
V_enter ==
    /\ t_pc = "else" /\ HasValidation(cell)
    /\ grad_enabled' = FALSE
    /\ training' = IF cell = "P5_In22" THEN FALSE ELSE training
    /\ tb' = 0
    /\ correct_total' = 0 /\ examples_total' = 0
    /\ val_start' = <<weights, grad>>
    /\ t_pc' = "for_test"
    /\ UNCHANGED <<cell, e, b, weights, grad, loss, running_loss, accuracy,
                   printed, ops, n_step, n_done, n_val, test_losses, print_label,
                   batch_grad, cvars, avars>>

\* Mutant: the validation loop also calls optimizer.step().
V_batch_stepping ==
    /\ t_pc = "for_test" /\ tb < NumTestBatches
    /\ \E lb \in [1..TestBatchLen(tb + 1) -> Classes],
          tc \in [1..TestBatchLen(tb + 1) -> Classes] :
          LET n == TestBatchLen(tb + 1)
              acc == mean(equals(DataTensor(<<n, 1>>, tc),
                                 DataTensor(<<n>>, lb)))
          IN /\ accuracy' = acc
             /\ correct_total' = correct_total + acc[1]
             /\ examples_total' = examples_total + acc[2]
    /\ tb' = tb + 1
    /\ weights' = (weights - grad[1]) % (MaxWeight + 1)
    /\ n_step' = n_step + 1
    /\ UNCHANGED <<cell, t_pc, e, b, grad, training, grad_enabled,
                   loss, running_loss, printed, ops, n_done, n_val,
                   val_start, test_losses, print_label,
                   batch_grad, cvars, avars>>

\* for images, labels in testloader: ps, top_class, equals, accuracy
V_batch ==
    /\ t_pc = "for_test" /\ tb < NumTestBatches
    /\ \E lb \in [1..TestBatchLen(tb + 1) -> Classes],
          tc \in [1..TestBatchLen(tb + 1) -> Classes] :
          LET n == TestBatchLen(tb + 1)
              acc == mean(equals(DataTensor(<<n, 1>>, tc),
                                 DataTensor(<<n>>, lb)))
          IN /\ accuracy' = acc
             /\ correct_total' = correct_total + acc[1]
             /\ examples_total' = examples_total + acc[2]
    /\ tb' = tb + 1
    /\ UNCHANGED <<cell, t_pc, e, b, weights, grad, training, grad_enabled,
                   loss, running_loss, printed, ops, n_step, n_done, n_val,
                   val_start, test_losses, print_label,
                   batch_grad, cvars, avars>>

\* after the loop: print(f'Accuracy: {accuracy.item()*100}%'); the with
\* block ends and the next epoch begins.
V_print ==
    /\ t_pc = "for_test" /\ tb = NumTestBatches
    /\ printed' = <<accuracy[1] * 100, accuracy[2]>>
    /\ print_label' = "Accuracy"
    /\ grad_enabled' = TRUE
    /\ n_val' = n_val + 1
    /\ correct_total' = 0 /\ examples_total' = 0
    /\ val_start' = <<>>
    /\ e' = e + 1
    /\ t_pc' = "epoch"
    /\ UNCHANGED <<cell, b, tb, weights, grad, training, loss, running_loss,
                   accuracy, ops, n_step, n_done, test_losses,
                   batch_grad, cvars, avars>>

\* In[27]: model.eval()
In27_eval ==
    /\ cell = "P5_In27" /\ t_pc = "inference"
    /\ training' = FALSE
    /\ val_start' = <<weights, grad>>
    /\ t_pc' = "no_grad_forward"
    /\ UNCHANGED <<cell, e, b, tb, weights, grad, grad_enabled, loss,
                   running_loss, accuracy, printed, ops, n_step, n_done,
                   n_val, correct_total, examples_total, test_losses, print_label,
                   batch_grad, cvars, avars>>

\* In[27]: with torch.no_grad(): output = model.forward(img); the
\* probabilities are plotted.
In27_forward ==
    /\ cell = "P5_In27" /\ t_pc = "no_grad_forward"
    /\ t_pc' = "cell_done"
    /\ UNCHANGED <<cell, e, b, tb, weights, grad, training, grad_enabled, loss,
                   running_loss, accuracy, printed, ops, n_step, n_done,
                   n_val, correct_total, examples_total, val_start, test_losses, print_label,
                   batch_grad, cvars, avars>>

\* part 4, In[10]: model = nn.Sequential(...); logits = model(images);
\* loss = criterion(logits, labels). No parameter has a gradient yet.
P4_In10_forward ==
    /\ cell = "P4_In10" /\ t_pc = "p4_model"
    /\ \E w0 \in 0..MaxWeight : weights' = w0
    /\ grad' = <<>> /\ batch_grad' = <<>>
    /\ \E l \in Losses : loss' = l
    /\ ops' = <<"forward", "loss">>
    /\ t_pc' = "cell_done"
    /\ UNCHANGED <<cell, e, b, tb, training, grad_enabled, running_loss,
                   accuracy, printed, print_label, test_losses, n_step, n_done,
                   n_val, correct_total, examples_total, val_start, cvars, avars>>

\* part 4, In[11]: the gradient is printed (None), loss.backward(), printed.
P4_In11_backward ==
    /\ cell = "P4_In11" /\ t_pc = "p4_backward"
    /\ \E g \in Grads :
          /\ grad' = <<(IF grad = <<>> THEN 0 ELSE grad[1]) + g>>
          /\ batch_grad' = <<g>>
    /\ ops' = Append(ops, "backward")
    /\ t_pc' = "cell_done"
    /\ UNCHANGED <<cell, e, b, tb, weights, training, grad_enabled, loss,
                   running_loss, accuracy, printed, print_label, test_losses,
                   n_step, n_done, n_val, correct_total, examples_total,
                   val_start, cvars, avars>>

\* part 4, In[13] (after In[12] made the optimizer): a new batch;
\* optimizer.zero_grad(); output = model(images); loss = criterion(...);
\* loss.backward().
P4_In13_pass ==
    /\ cell = "P4_In13" /\ t_pc = "p4_pass"
    /\ \E l \in Losses : loss' = l
    /\ \E g \in Grads :
          /\ grad' = <<0 + g>>    \* zeroed, then the backward pass adds g
          /\ batch_grad' = <<g>>
    /\ ops' = <<"zero_grad", "forward", "loss", "backward">>
    /\ t_pc' = "cell_done"
    /\ UNCHANGED <<cell, e, b, tb, weights, training, grad_enabled,
                   running_loss, accuracy, printed, print_label, test_losses,
                   n_step, n_done, n_val, correct_total, examples_total,
                   val_start, cvars, avars>>

\* part 4, In[14]: optimizer.step(); the updated weights are printed.
P4_In14_step ==
    /\ cell = "P4_In14" /\ t_pc = "p4_step"
    /\ weights' = (weights - grad[1]) % (MaxWeight + 1)
    /\ n_step' = n_step + 1
    /\ ops' = Append(ops, "step")
    /\ t_pc' = "cell_done"
    /\ UNCHANGED <<cell, e, b, tb, grad, training, grad_enabled, loss,
                   running_loss, accuracy, printed, print_label, test_losses,
                   batch_grad, n_done, n_val, correct_total, examples_total,
                   val_start, cvars, avars>>

\* The cell has run; the next code cell of the notebook starts.
T_next_cell ==
    /\ t_pc = "cell_done"
    /\ cell' = CASE cell = "P4_In10" -> "P4_In11"
                 [] cell = "P4_In11" -> "P4_In13"
                 [] cell = "P4_In13" -> "P4_In14"
                 [] cell = "P4_In14" -> "P4_In15"
                 [] cell = "P5_In19" -> "P5_In22"
                 [] cell = "P5_In22" -> "P5_In27"
                 [] OTHER -> "end"
    /\ t_pc' = CASE cell = "P4_In10" -> "p4_backward"
                 [] cell = "P4_In11" -> "p4_pass"
                 [] cell = "P4_In13" -> "p4_step"
                 [] cell = "P4_In14" -> "setup"
                 [] cell = "P5_In19" -> "setup"
                 [] cell = "P5_In22" -> "inference"
                 [] OTHER -> "end"
    /\ UNCHANGED <<e, b, tb, weights, grad, training, grad_enabled, loss,
                   running_loss, accuracy, printed, ops, n_step, n_done,
                   n_val, correct_total, examples_total, val_start, test_losses, print_label,
                   batch_grad, cvars, avars>>

TrainNext ==
    \/ P4_In10_forward
    \/ P4_In11_backward
    \/ P4_In13_pass
    \/ P4_In14_step
    \/ T_setup
    \/ T_epoch
    \/ T_for_train
    \/ T_zero_grad
    \/ T_forward
    \/ T_criterion
    \/ T_backward
    \/ T_step
    \/ T_running_loss
    \/ P4_print_loss
    \/ V_enter
    \/ V_batch
    \/ V_print
    \/ In27_eval
    \/ In27_forward
    \/ T_next_cell

TrainSpec == TrainInit /\ [][TrainNext]_vars

\* ------------------------------------------------------------ properties
Matched == "<All keys matched successfully>"

\* The layer widths a checkpoint record describes, input to output.
RecordWidths(c) == <<c.input_size>> \o c.hidden_layers \o <<c.output_size>>

C2_MismatchFails ==
    (pc = "In14" /\ out_features_list(model) # out_features_list(trained)) =>
        /\ out = "RuntimeError"
        /\ \A i \in DOMAIN model.hidden_layers :
              /\ model.hidden_layers[i].weight.shape =
                    <<model.hidden_layers[i].out_features,
                      model.hidden_layers[i].in_features>>
              /\ model.hidden_layers[i].bias.shape =
                    <<model.hidden_layers[i].out_features>>
        /\ model.output.weight.shape =
              <<model.output.out_features, model.output.in_features>>

\* The load failed into a network with as many hidden layers as the stored
\* one (a size mismatch, no missing key).
C2_Witness ==
    /\ pc = "In14"
    /\ out = "RuntimeError"
    /\ Len(model.hidden_layers) = Len(trained.hidden_layers)
    /\ out_features_list(model) # out_features_list(trained)

\* C3: after the notebook's cells have run in order, load_checkpoint has
\* returned the network that fc_model.train trained, and the file holds that
\* network's architecture and parameters.
C3_CheckpointHoldsTrained ==
    lc_pc = "returned" =>
        /\ model = trained
        /\ file.obj.hidden_layers = out_features_list(trained)
        /\ file.obj.state_dict = model_state_dict(trained)

\* C4: checkpoint invariant. In every record In[14] writes, the recorded
\* sizes are the shapes of the record's state dict, layer by layer, and a
\* network built from the recorded sizes accepts the state dict.
C4_RecordAgrees ==
    file.kind = "checkpoint" =>
        LET c == file.obj
            n == Len(c.hidden_layers)
            w == RecordWidths(c)
        IN /\ n >= 1
           /\ DOMAIN c.state_dict = Keys(n)
           /\ \A i \in 1..n :
                 /\ c.state_dict[<<"hidden_layers", i - 1, "weight">>].shape
                       = <<w[i + 1], w[i]>>
                 /\ c.state_dict[<<"hidden_layers", i - 1, "bias">>].shape
                       = <<w[i + 1]>>
           /\ c.state_dict[<<"output", 0, "weight">>].shape = <<w[n + 2], w[n + 1]>>
           /\ c.state_dict[<<"output", 0, "bias">>].shape = <<w[n + 2]>>
           /\ \A v \in Vals :
                 load_state_dict(
                     Network(c.input_size, c.output_size, c.hidden_layers, v),
                     c.state_dict).result = Matched

\* A record of a network that is not the trained one is in the file.
C4_Witness ==
    /\ file.kind = "checkpoint"
    /\ file.obj.hidden_layers = OtherHidden
    /\ out_features_list(trained) = TrainedHidden

\* C5: load_checkpoint's order. The record in hand when the network is built
\* is the one read from the file; the network leaving the build step has
\* exactly the record's sizes; parameters are assigned only into that
\* network, and the assignment changes no size.
C5_LoadOrder ==
    [][/\ (lc_pc = "build" /\ lc_pc' = "assign") =>
             /\ lc_checkpoint = torch_load(file)
             /\ LayerWidths(lc_model') = RecordWidths(lc_checkpoint)
       /\ (lc_pc = "assign" /\ lc_pc' # "assign") =>
             /\ LayerWidths(lc_model) = RecordWidths(lc_checkpoint)
             /\ LayerWidths(lc_model') = RecordWidths(lc_checkpoint)
       /\ (lc_model' # lc_model) => lc_pc \in {"build", "assign"}
       /\ (lc_pc = "idle") => lc_pc' \in {"idle", "build"}
      ]_vars

\* The record's parameters have been assigned into a network built from a
\* record that does not describe the trained architecture.
C5_Witness ==
    /\ lc_pc = "return"
    /\ model_state_dict(lc_model) = lc_checkpoint.state_dict
    /\ lc_checkpoint.hidden_layers # out_features_list(trained)

\* C6: loading succeeds exactly when the architectures agree. In[12] (a
\* network loading its own state dict) reports that all keys matched and
\* leaves the parameters as they were; In[13] reports it exactly when the new
\* network has the layer widths of the stored one, and then its parameters
\* are the stored ones; otherwise it raises.
C6_LoadIffSameArchitecture ==
    /\ pc = "In13" => (out = Matched /\ model = trained)
    /\ pc = "In14" =>
          /\ out \in {Matched, "RuntimeError"}
          /\ (out = Matched) <=> (LayerWidths(model) = LayerWidths(trained))
          /\ (out = Matched) => (model_state_dict(model) = state_dict)

\* In[13] loaded the stored state dict into a fresh network of the same
\* architecture whose initial content differed from the stored one.
C6_Witness ==
    /\ pc = "In14"
    /\ out = Matched
    /\ state_dict[<<"output", 0, "weight">>].val # state_dict[<<"output", 0, "bias">>].val

\* The statements of one training pass, numbered by how many of the five
\* calls have been made when the statement is about to run.
PassPosition ==
    [zero_grad |-> 0, forward |-> 1, criterion |-> 2, backward |-> 3,
     step |-> 4, running_loss |-> 5]

InTrainingPass == t_pc \in DOMAIN PassPosition

\* C7: a validation pass and the inference cell update nothing. No step
\* taken while the validation loop or the inference cell runs changes the
\* parameters or their gradients or makes a zero_grad, backward or step call,
\* and the parameters a pass ends with are those it began with.
C7_ValidationUpdatesNothing ==
    [][/\ (t_pc \in {"for_test", "inference", "no_grad_forward"}) =>
             /\ weights' = weights
             /\ grad' = grad
             /\ n_step' = n_step
             /\ ops' = ops
       /\ (t_pc \in {"for_test", "no_grad_forward"}) =>
             <<weights', grad'>> = val_start
      ]_vars

\* A validation pass over every test batch has run on trained parameters
\* that carry a nonzero gradient.
C7_Witness ==
    /\ cell = "P5_In19"
    /\ t_pc = "for_test" /\ tb = NumTestBatches
    /\ n_step > NumTrainBatches
    /\ grad # <<>> /\ grad # <<0>>
    /\ val_start = <<weights, grad>>

\* C8: in every training pass the calls made for the batch are, in order,
\* zero_grad, forward, loss, backward, step: before each statement exactly
\* the calls that precede it have been made, and the optimizer has stepped
\* once for every batch processed so far.
C8_FiveStepsInOrder ==
    (cell \in TrainingCells /\ InTrainingPass) =>
        /\ ops = SubSeq(FiveSteps, 1, PassPosition[t_pc])
        /\ n_step = e * NumTrainBatches + n_done
                    + (IF t_pc = "running_loss" THEN 1 ELSE 0)

\* The last batch of a later epoch has just been stepped on.
C8_Witness ==
    /\ cell = "P4_In15"
    /\ t_pc = "running_loss"
    /\ e >= 1 /\ b = NumTrainBatches
    /\ ops = FiveSteps

\* C9: an epoch is one full pass. When the for-else branch is reached every
\* batch of the loader has been fetched and processed once, and when a
\* training cell has finished the optimizer has stepped epochs times
\* len(trainloader) times.
C9_EpochIsFullPass ==
    cell \in TrainingCells =>
        /\ t_pc = "else" => (b = NumTrainBatches /\ n_done = NumTrainBatches)
        /\ t_pc = "cell_done" =>
              (e = Epochs(cell) /\ n_step = Epochs(cell) * NumTrainBatches)

\* The dropout cell of part 5 has finished its ten epochs.
C9_Witness ==
    /\ cell = "P5_In22"
    /\ t_pc = "cell_done"
    /\ n_step = EpochsPart5 * NumTrainBatches

\* C10: the value printed after a validation loop is the accuracy over the
\* whole test set: correct predictions of all test batches divided by the
\* number of test examples (printed as a percentage).
C10_PrintsTotalAccuracy ==
    [][(t_pc = "for_test" /\ t_pc' = "epoch") =>
          /\ examples_total = NumTest
          /\ printed'[1] * examples_total = 100 * correct_total * printed'[2]
      ]_vars

\* C11: in the dropout cell In[22] the model is in train mode during every
\* training pass of every epoch, those after the first validation pass
\* included.
C11_TrainModeWhileTraining ==
    (cell = "P5_In22" /\ InTrainingPass) => training

\* C12: dropout is off whenever the dropout network predicts. At every
\* forward pass of In[22]'s validation loop and at the forward pass of the
\* inference cell In[27] the model is in evaluation mode.
C12_EvalModeWhilePredicting ==
    /\ (cell = "P5_In22" /\ t_pc = "for_test") => ~training
    /\ (cell = "P5_In27" /\ t_pc = "no_grad_forward") => ~training

\* The first validation pass of In[22] is about to predict on a test batch:
\* the model was in train mode until this pass began.
C12_Witness ==
    /\ cell = "P5_In22"
    /\ t_pc = "for_test" /\ tb < NumTestBatches
    /\ e = 0
    /\ ~training

\* C13: the dropout cell In[22] monitors the validation loss as well as the
\* accuracy: once a validation pass has finished, a validation loss has been
\* computed for every finished pass (one entry of test_losses each) next to
\* the accuracy that was printed.
C13_ValidationLossReported ==
    (cell = "P5_In22" /\ n_val > 0) =>
        /\ print_label = "Accuracy"
        /\ Len(test_losses) = n_val

\* How many of the notebook's operations can take the next step.
NumEnabled ==
      (IF ENABLED In8_train THEN 1 ELSE 0)
    + (IF ENABLED In10_save_state_dict THEN 1 ELSE 0)
    + (IF ENABLED In11_load_file THEN 1 ELSE 0)
    + (IF ENABLED In12_load_state_dict THEN 1 ELSE 0)
    + (IF ENABLED In13_other_architecture THEN 1 ELSE 0)
    + (IF ENABLED In14_save_checkpoint THEN 1 ELSE 0)
    + (IF ENABLED LC_read THEN 1 ELSE 0)
    + (IF ENABLED LC_build THEN 1 ELSE 0)
    + (IF ENABLED LC_assign THEN 1 ELSE 0)
    + (IF ENABLED LC_return THEN 1 ELSE 0)

C15_GradientOfCurrentBatchOnly ==
    t_pc \in {"step", "p4_step"} =>
        /\ batch_grad # <<>>
        /\ grad = batch_grad

\* The optimizer is about to step on a nonzero gradient for the last batch
\* of a later epoch.
C15_Witness ==
    /\ cell = "P5_In19"
    /\ t_pc = "step"
    /\ e >= 1 /\ b = NumTrainBatches
    /\ grad = batch_grad
    /\ grad # <<0>>

\* ------------------------------------------------------------ accuracy cells
\* Bound on the number of examples in the batch of In[3]..In[6] of part 5.
MaxN == 3
Scores == {0, 1}

\* In[3] of part 5 has run: images, labels = next(iter(testloader));
\* ps = torch.exp(model(images)).
AccInit ==
    /\ CheckpointIdle
    /\ TrainIdle
    /\ a_pc = "In4"
    /\ \E n \in 1..MaxN :
          /\ \E d \in [1..(n * NumClasses) -> Scores] :
                ps = DataTensor(<<n, NumClasses>>, d)
          /\ \E d \in [1..n -> Classes] : labels = DataTensor(<<n>>, d)
    /\ top_class = NoTensor
    /\ equals_v = NoTensor

\* In[4]: top_p, top_class = ps.topk(1, dim=1)
In4_topk ==
    /\ a_pc = "In4"
    /\ top_class' \in topk1_class(ps)
    /\ a_pc' = "In5"
    /\ UNCHANGED <<ps, labels, equals_v, cvars, tvars>>

\* In[5]: equals = top_class == labels.view(*top_class.shape)
In5_equals ==
    /\ a_pc = "In5"
    /\ equals_v' = equals(top_class, labels)
    /\ a_pc' = "In6"
    /\ UNCHANGED <<ps, labels, top_class, cvars, tvars>>

\* In[6]: accuracy = torch.mean(equals.type(torch.FloatTensor));
\* print(f'Accuracy: {accuracy.item()*100}%')
In6_accuracy ==
    /\ a_pc = "In6"
    /\ accuracy' = mean(equals_v)
    /\ printed' = accuracy'
    /\ print_label' = "Accuracy"
    /\ a_pc' = "end"
    /\ UNCHANGED <<cell, t_pc, e, b, tb, weights, grad, training,
                   grad_enabled, loss, running_loss, test_losses, batch_grad,
                   ops, n_step, n_done, n_val, correct_total, examples_total,
                   val_start, ps, labels, top_class, equals_v, cvars>>

AccNext ==
    \/ In4_topk
    \/ In5_equals
    \/ In6_accuracy

AccSpec == AccInit /\ [][AccNext]_vars

\* C16: batch accuracy is computed per example. equals has the shape of
\* top_class, (N, 1), so one entry per example and not N * N of them; entry i
\* is true exactly when the predicted class of example i equals label i; and
\* the accuracy is the number of true entries divided by N, between 0 and 1.
C16_AccuracyPerExample ==
    LET n == labels.shape[1]
    IN /\ a_pc \in {"In6", "end"} =>
            /\ top_class.shape = <<n, 1>>
            /\ equals_v.shape = <<n, 1>>
            /\ Len(equals_v.data) = n
            /\ \A i \in 1..n :
                  equals_v.data[i] <=> (top_class.data[i] = labels.data[i])
       /\ a_pc = "end" =>
            /\ accuracy = <<Cardinality({i \in 1..n :
                               top_class.data[i] = labels.data[i]}), n>>
            /\ 0 <= accuracy[1] /\ accuracy[1] <= accuracy[2]
            /\ printed = accuracy

\* In[6] has run on a batch of several examples where some predictions, not
\* all, are right, and two examples of different labels are both right.
C16_Witness ==
    /\ a_pc = "end"
    /\ labels.shape[1] >= 3
    /\ accuracy = <<2, labels.shape[1]>>
    /\ \E i, j \in 1..labels.shape[1] :
          /\ labels.data[i] # labels.data[j]
          /\ equals_v.data[i] /\ equals_v.data[j]

\* The layers of net chain from input_size to output_size, and each layer's
\* weight and bias have the shapes its features give.
Chained(net, input_size, output_size) ==
    LET hl == net.hidden_layers
        n == Len(hl)
        shaped(l) == /\ l.weight.shape = <<l.out_features, l.in_features>>
                     /\ l.bias.shape = <<l.out_features>>
    IN /\ n >= 1
       /\ hl[1].in_features = input_size
       /\ \A i \in 2..n : hl[i].in_features = hl[i - 1].out_features
       /\ net.output.in_features = hl[n].out_features
       /\ net.output.out_features = output_size
       /\ shaped(net.output)
       /\ \A i \in 1..n : shaped(hl[i])

\* C17: Network(input_size, output_size, hidden) chains its layers, so the
\* out_features read from model.hidden_layers are the hidden list it was
\* built from: every network of the notebook chains from 784 to 10 over one
\* of the hidden lists the cells pass, the checkpoint written from a network
\* records its chain, and the network load_checkpoint builds from a record
\* chains over exactly the record's sizes.
C17_NetworkChainsLayers ==
    /\ Chained(model, InputSize, OutputSize)
    /\ out_features_list(model) \in HiddenChoices
    /\ file.kind = "checkpoint" =>
          /\ Chained(saved, file.obj.input_size, file.obj.output_size)
          /\ file.obj.hidden_layers = out_features_list(saved)
    /\ lc_pc \in {"assign", "return", "returned", "raised"} =>
          /\ Chained(lc_model, lc_checkpoint.input_size,
                     lc_checkpoint.output_size)
          /\ out_features_list(lc_model) = lc_checkpoint.hidden_layers

\* load_checkpoint has rebuilt a network of two hidden layers of different
\* widths from the record written for the network of In[13].
C17_Witness ==
    /\ lc_pc = "assign"
    /\ Len(lc_model.hidden_layers) = 2
    /\ out_features_list(lc_model) = <<400, 512>>
    /\ lc_model.hidden_layers[2].in_features = 400
    /\ out_features_list(trained) # <<400, 512>>

\* The key set the claim names for n hidden layers, written out.
NamedKeys(n) ==
    UNION {{<<"hidden_layers", i, "weight">>, <<"hidden_layers", i, "bias">>} :
              i \in 0..(n - 1)}
    \cup {<<"output", 0, "weight">>, <<"output", 0, "bias">>}

\* C18: the state dict of a network with n hidden layers has exactly 2n + 2
\* entries, a weight and a bias per hidden layer and for the output layer,
\* and none for the dropout module; the state dict saved by In[10] and the
\* one In[11] loads back have the key set of the network they were taken
\* from, as has the state dict inside the checkpoint of In[14].
C18_StateDictKeys ==
    LET sd == model_state_dict(model)
        n == Len(model.hidden_layers)
    IN /\ Cardinality(DOMAIN sd) = 2 * n + 2
       /\ DOMAIN sd = NamedKeys(n)
       /\ \A k \in DOMAIN sd : k[1] # "dropout"
       /\ file.kind = "state_dict" =>
             DOMAIN file.obj = NamedKeys(Len(trained.hidden_layers))
       /\ state_dict # NoDict =>
             /\ DOMAIN state_dict = NamedKeys(Len(trained.hidden_layers))
             /\ DOMAIN state_dict = DOMAIN model_state_dict(trained)
             /\ Cardinality(DOMAIN state_dict)
                   = 2 * Len(trained.hidden_layers) + 2
       /\ file.kind = "checkpoint" =>
             DOMAIN file.obj.state_dict = NamedKeys(Len(saved.hidden_layers))

\* In[11] has loaded the state dict of a network of two hidden layers: six
\* entries.
C18_Witness ==
    /\ pc = "In12"
    /\ Len(trained.hidden_layers) = 2
    /\ Cardinality(DOMAIN state_dict) = 6
    /\ <<"hidden_layers", 1, "bias">> \in DOMAIN state_dict

\* C19: in the training cells with a validation pass, the pass runs exactly
\* once per epoch and only after every training batch of the epoch. While
\* epoch e trains, exactly e passes have finished; the pass of epoch e runs
\* with every training batch of that epoch processed and no test batch
\* fetched beyond the loader's; and the cell ends with one pass per epoch.
C19_ValidationOncePerEpoch ==
    (cell \in TrainingCells /\ HasValidation(cell)) =>
        /\ (t_pc = "for_train" \/ InTrainingPass) =>
              /\ n_val = e
              /\ e < Epochs(cell)
        /\ t_pc \in {"else", "for_test"} =>
              /\ n_val = e
              /\ b = NumTrainBatches
              /\ n_done = NumTrainBatches
              /\ n_step = (e + 1) * NumTrainBatches
        /\ t_pc = "for_test" => tb <= NumTestBatches
        /\ t_pc = "epoch" => n_val = e
        /\ t_pc = "cell_done" => n_val = Epochs(cell)

\* The third epoch of In[19] is training its last batch after two finished
\* validation passes.
C19_Witness ==
    /\ cell = "P5_In19"
    /\ t_pc = "step"
    /\ e = 2 /\ n_val = 2
    /\ b = NumTrainBatches
    /\ n_step = 2 * NumTrainBatches + (NumTrainBatches - 1)

\* C20: only the optimizer step changes the weights. Fetching a batch,
\* clearing the gradients, the forward pass, the loss and the backward pass
\* leave the weights as they are; the backward pass changes the gradient
\* (None before the first one) and nothing else of the model; the step leaves
\* the gradient as it is; with the SGD optimizer of part 4 the weights after
\* the step are the weights before it moved by the gradient held then; and
\* apart from building a new model nothing but a step changes the weights.
C20_OnlyStepChangesWeights ==
    [][/\ (t_pc = "for_train" \/ (InTrainingPass /\ t_pc # "step")
           \/ t_pc \in {"p4_backward", "p4_pass"}) =>
             weights' = weights
       /\ t_pc \in {"backward", "p4_backward"} =>
             /\ grad' # <<>>
             /\ <<weights', training', loss', running_loss', n_step'>>
                   = <<weights, training, loss, running_loss, n_step>>
       /\ t_pc = "p4_backward" => grad = <<>>
       /\ t_pc \in {"step", "p4_step"} =>
             /\ grad' = grad
             /\ n_step' = n_step + 1
             /\ cell \in {"P4_In14", "P4_In15"} =>
                   weights' = (weights - grad[1]) % (MaxWeight + 1)
       /\ weights' # weights =>
             t_pc \in {"step", "p4_step", "setup", "p4_model"}
      ]_vars

\* In[14] of part 4 has stepped once on the nonzero gradient In[13] left.
C20_Witness ==
    /\ cell = "P4_In14"
    /\ t_pc = "cell_done"
    /\ ops = FiveSteps
    /\ n_step = 1
    /\ grad = batch_grad
    /\ grad # <<0>>

====
